---- MODULE Spec2Model ----
(***************************************************************************)
(* Crypto Price Agent (src/main.py): the Binance wrappers of               *)
(* CryptoDataService, format_market_data, get_agent_response and the chat  *)
(* turn handler of main().                                                 *)
(*                                                                         *)
(* Python strings are TLA+ strings, handled character by character with    *)
(* Len, SubSeq and \o.  The module's strings are ASCII, so the emoji of    *)
(* the source are written as ASCII stand-ins (WarningMark, CrossMark,      *)
(* ChartMark, Bullet).  A Python exception is a result record with         *)
(* kind = "raise"; a returned value has kind = "return".                   *)
(***************************************************************************)
EXTENDS Integers, Sequences, FiniteSets, TLC

VARIABLES
    session,        \* keys present in st.session_state
    messages,       \* st.session_state.messages (<<>> while the key is absent)
    pc,             \* position of the script run: idle, agent, gate, fetch, append
    prompt,         \* local of main(): the submitted text ("" when no input)
    response,       \* local of main()
    symbol,         \* local of main()
    market_data,    \* local of main(): a dict, <<>> while unbound
    agentInput,     \* the text handed to the agent
    agentRun,       \* what the delegation did: a final output or an exception
    agentAnswer,    \* value of response when the delegation step ended
    delegations,    \* delegation steps run in the current turn
    toolFetches,    \* snapshot fetches the agent made through its tool
    directFetches,  \* snapshot fetches main() issued itself
    pipeline,       \* outcome of the override block: none, ok, error, raised
    turns,          \* completed turns of the session
    input,          \* argument of the function under test (function suite)
    output          \* its result (function suite)

vars == <<session, messages, pc, prompt, response, symbol, market_data,
          agentInput, agentRun, agentAnswer, delegations, toolFetches, directFetches, pipeline,
          turns, input, output>>

-----------------------------------------------------------------------------
(* Bounds *)

MaxTurns == 2
MaxToolCalls == 1
MaxWords == 2

-----------------------------------------------------------------------------
(* Characters and strings *)

LowerAlpha == "abcdefghijklmnopqrstuvwxyz"
UpperAlpha == "ABCDEFGHIJKLMNOPQRSTUVWXYZ"
Digits == "0123456789"

Char(s, i) == SubSeq(s, i, i)

Rest(s) == SubSeq(s, 2, Len(s))

InString(c, alphabet) == \E i \in 1..Len(alphabet) : Char(alphabet, i) = c

IndexIn(c, alphabet) == CHOOSE i \in 1..Len(alphabet) : Char(alphabet, i) = c

UpperChar(c) ==
    IF InString(c, LowerAlpha) THEN Char(UpperAlpha, IndexIn(c, LowerAlpha)) ELSE c

LowerChar(c) ==
    IF InString(c, UpperAlpha) THEN Char(LowerAlpha, IndexIn(c, UpperAlpha)) ELSE c

RECURSIVE UpperFrom(_, _)
UpperFrom(s, i) ==
    IF i > Len(s) THEN "" ELSE UpperChar(Char(s, i)) \o UpperFrom(s, i + 1)

\* str.upper()
Upper(s) == UpperFrom(s, 1)

RECURSIVE LowerFrom(_, _)
LowerFrom(s, i) ==
    IF i > Len(s) THEN "" ELSE LowerChar(Char(s, i)) \o LowerFrom(s, i + 1)

\* str.lower()
Lower(s) == LowerFrom(s, 1)

IsSpace(c) == c \in {" ", "\t", "\n"}

\* str.split(): tokens between runs of whitespace, no empty token.
RECURSIVE SplitAcc(_, _, _)
SplitAcc(s, i, cur) ==
    IF i > Len(s)
    THEN IF cur = "" THEN <<>> ELSE <<cur>>
    ELSE IF IsSpace(Char(s, i))
         THEN (IF cur = "" THEN <<>> ELSE <<cur>>) \o SplitAcc(s, i + 1, "")
         ELSE SplitAcc(s, i + 1, cur \o Char(s, i))

Split(s) == SplitAcc(s, 1, "")

\* needle in hay
Contains(hay, needle) ==
    \E i \in 1..(Len(hay) - Len(needle) + 1) :
        SubSeq(hay, i, i + Len(needle) - 1) = needle

StartsWith(s, p) == Len(s) >= Len(p) /\ SubSeq(s, 1, Len(p)) = p

EndsWith(s, p) == Len(s) >= Len(p) /\ SubSeq(s, Len(s) - Len(p) + 1, Len(s)) = p

-----------------------------------------------------------------------------
(* Constants of the source *)

BINANCE_API_URL == "https://api.binance.com/api/v3"
DEFAULT_CRYPTO == "BTCUSDT"

WarningMark == "(!)"
CrossMark == "(x)"
ChartMark == "(#)"
Bullet == "*"

AllowList ==
    <<"BTCUSDT", "ETHUSDT", "BNBUSDT", "XRPUSDT", "ADAUSDT", "SOLUSDT", "DOGEUSDT">>

Keywords == <<"market", "data", "details">>

Welcome ==
    [role |-> "assistant",
     content |-> "Hi! I'm Crypto Price Agent. Ask me about cryptocurrency prices and market data."]

-----------------------------------------------------------------------------
(* Numbers: a float is a sign and a magnitude in thousandths.  The inputs  *)
(* of the model are decimal strings with at most three significant         *)
(* fraction digits and no value exactly half way between two hundredths,   *)
(* so parsing and two-decimal formatting are exact.                        *)

Num(neg, mills) == [neg |-> neg, mills |-> mills]

AllDigits(s) == \A i \in 1..Len(s) : InString(Char(s, i), Digits)

RECURSIVE IntUpTo(_, _)
IntUpTo(d, n) ==
    IF n = 0 THEN 0
    ELSE IntUpTo(d, n - 1) * 10 + (IndexIn(Char(d, n), Digits) - 1)

\* the number a string of digits denotes
IntOf(d) == IntUpTo(d, Len(d))

\* float(s) for a decimal string: [sign] digits [. digits]
ParseFloat(s) ==
    LET signed == s # "" /\ Char(s, 1) \in {"-", "+"}
        body == IF signed THEN Rest(s) ELSE s
        dots == {i \in 1..Len(body) : Char(body, i) = "."}
        dot == IF dots = {} THEN Len(body) + 1
               ELSE CHOOSE i \in dots : \A j \in dots : i <= j
        ip == SubSeq(body, 1, dot - 1)
        fp == SubSeq(body, dot + 1, Len(body))
        fp3 == SubSeq(fp \o "000", 1, 3)
        ok == AllDigits(ip) /\ AllDigits(fp) /\ Len(ip) + Len(fp) >= 1
    IN  IF ok
        THEN [ok |-> TRUE,
              val |-> Num(signed /\ Char(s, 1) = "-", IntOf(ip) * 1000 + IntOf(fp3))]
        ELSE [ok |-> FALSE, val |-> Num(FALSE, 0)]

Pad2(n) == IF n < 10 THEN "0" \o ToString(n) ELSE ToString(n)

Pad3(n) == IF n < 10 THEN "00" \o ToString(n)
           ELSE IF n < 100 THEN "0" \o ToString(n) ELSE ToString(n)

RECURSIVE Commas(_)
Commas(n) == IF n < 1000 THEN ToString(n)
             ELSE Commas(n \div 1000) \o "," \o Pad3(n % 1000)

\* format(x, ",.2f") when grouping, format(x, ".2f") otherwise
Fmt2f(x, grouping) ==
    LET cents == (x.mills + 5) \div 10
        whole == cents \div 100
    IN  (IF x.neg THEN "-" ELSE "")
        \o (IF grouping THEN Commas(whole) ELSE ToString(whole))
        \o "." \o Pad2(cents % 100)

-----------------------------------------------------------------------------
(* Results and the upstream HTTP response *)

Return(v) == [kind |-> "return", value |-> v]

\* an exception whose str() is msg
Raise(msg) == [kind |-> "raise", value |-> msg]

\* requests.get(url), raise_for_status(), response.json() against an upstream
\* reply resp = [net, err, status, json, body]: net is FALSE when the
\* connection failed with text err; json is FALSE when the body is not JSON.
HttpGetJson(url, resp) ==
    IF ~resp.net THEN Raise(resp.err)
    ELSE IF resp.status >= 400 /\ resp.status < 600
    THEN Raise(ToString(resp.status) \o " Error for url: " \o url)
    ELSE IF ~resp.json THEN Raise("Expecting value: line 1 column 1 (char 0)")
    ELSE Return(resp.body)

\* float(data[key])
FloatField(data, key) ==
    IF key \notin DOMAIN data THEN Raise("'" \o key \o "'")
    ELSE LET p == ParseFloat(data[key])
         IN  IF p.ok THEN Return(p.val)
             ELSE Raise("could not convert string to float: '" \o data[key] \o "'")

-----------------------------------------------------------------------------
(* CryptoDataService.get_crypto_price *)

PriceTry(sym, resp) ==
    LET got == HttpGetJson(BINANCE_API_URL \o "/ticker/price?symbol=" \o sym, resp)
    IN  IF got.kind = "raise" THEN got
        ELSE LET price == FloatField(got.value, "price")
             IN  IF price.kind = "raise" THEN price
                 ELSE Return("Current " \o sym \o " price: $" \o Fmt2f(price.value, TRUE))

\* mutant: the try/except of get_crypto_price left out
get_crypto_price_uncaught(sym, resp) == PriceTry(sym, resp)

get_crypto_price(sym, resp) ==
    LET r == PriceTry(sym, resp)
    IN  IF r.kind = "raise"
        THEN Return(CrossMark \o " Error fetching " \o sym \o " price: " \o r.value)
        ELSE r

-----------------------------------------------------------------------------
(* CryptoDataService.get_crypto_market_data *)

MarketFields == <<"price", "priceChangePercent", "highPrice", "lowPrice", "volume">>

MarketTry(sym, resp) ==
    LET got == HttpGetJson(BINANCE_API_URL \o "/ticker?symbol=" \o sym, resp)
    IN  IF got.kind = "raise" THEN got
        ELSE LET f(k) == FloatField(got.value, k)
                 bad == {i \in 1..Len(MarketFields) : f(MarketFields[i]).kind = "raise"}
             IN  IF bad # {}
                 THEN f(MarketFields[CHOOSE i \in bad : \A j \in bad : i <= j])
                 ELSE Return([symbol |-> sym,
                              price |-> f("price").value,
                              change |-> f("priceChangePercent").value,
                              high |-> f("highPrice").value,
                              low |-> f("lowPrice").value,
                              volume |-> f("volume").value])

\* mutant: a failure reported inside a zero-filled snapshot
get_crypto_market_data_zeroed(sym, resp) ==
    LET r == MarketTry(sym, resp)
    IN  IF r.kind = "raise"
        THEN Return([symbol |-> sym, price |-> Num(FALSE, 0), change |-> Num(FALSE, 0),
                     high |-> Num(FALSE, 0), low |-> Num(FALSE, 0),
                     volume |-> Num(FALSE, 0), error |-> r.value])
        ELSE r

get_crypto_market_data(sym, resp) ==
    LET r == MarketTry(sym, resp)
    IN  IF r.kind = "raise" THEN Return([error |-> r.value]) ELSE r

-----------------------------------------------------------------------------
(* format_market_data *)

\* mutant: the high and low lines exchanged
format_market_data_swapped(data) ==
    IF "error" \in DOMAIN data THEN data["error"]
    ELSE ChartMark \o " " \o data["symbol"] \o " Market Data:\n"
         \o Bullet \o " Price: $" \o Fmt2f(data["price"], TRUE) \o "\n"
         \o Bullet \o " 24h Change: " \o Fmt2f(data["change"], FALSE) \o "%\n"
         \o Bullet \o " 24h Low: $" \o Fmt2f(data["low"], TRUE) \o "\n"
         \o Bullet \o " 24h High: $" \o Fmt2f(data["high"], TRUE) \o "\n"
         \o Bullet \o " 24h Volume: " \o Fmt2f(data["volume"], TRUE)

format_market_data(data) ==
    IF "error" \in DOMAIN data THEN data["error"]
    ELSE ChartMark \o " " \o data["symbol"] \o " Market Data:\n"
         \o Bullet \o " Price: $" \o Fmt2f(data["price"], TRUE) \o "\n"
         \o Bullet \o " 24h Change: " \o Fmt2f(data["change"], FALSE) \o "%\n"
         \o Bullet \o " 24h High: $" \o Fmt2f(data["high"], TRUE) \o "\n"
         \o Bullet \o " 24h Low: $" \o Fmt2f(data["low"], TRUE) \o "\n"
         \o Bullet \o " 24h Volume: " \o Fmt2f(data["volume"], TRUE)

-----------------------------------------------------------------------------
(* main(): the trigger-word gate and the symbol heuristic *)

TriggerGate(text) ==
    \E low \in {Lower(text)} :
        \E i \in 1..Len(Keywords) : Contains(low, Keywords[i])

InAllowList(word) == \E i \in 1..Len(AllowList) : AllowList[i] = word

\* next((word for word in words if word in AllowList), default)
RECURSIVE FirstAllowed(_, _)
FirstAllowed(words, default) ==
    IF words = <<>> THEN default
    ELSE IF InAllowList(Head(words)) THEN Head(words)
    ELSE FirstAllowed(Tail(words), default)

\* mutant: the words are not uppercased before the comparison
ExtractSymbolNoUpper(text) == FirstAllowed(Split(text), DEFAULT_CRYPTO)

ExtractSymbol(text) == FirstAllowed(Split(Upper(text)), DEFAULT_CRYPTO)

-----------------------------------------------------------------------------
(* Input sets *)

GoodBody ==
    [symbol |-> "BTCUSDT", price |-> "43250.5", priceChangePercent |-> "+0.07",
     highPrice |-> "1234567.891", lowPrice |-> "999.999", volume |-> "0.004"]

EthBody ==
    [price |-> "2500.333", priceChangePercent |-> "-1.2", highPrice |-> "2600",
     lowPrice |-> "2400.00000000", volume |-> "15000"]

SmallBody ==
    [price |-> ".5", priceChangePercent |-> "-0.001", highPrice |-> "1000.",
     lowPrice |-> "0", volume |-> "12"]

Bodies ==
    { GoodBody, EthBody, SmallBody,
      [price |-> "43250.5"],
      [k \in {} |-> ""],
      [GoodBody EXCEPT !.price = "abc"],
      [GoodBody EXCEPT !.highPrice = ""],
      [GoodBody EXCEPT !.priceChangePercent = "1.2.3"],
      [priceChangePercent |-> "-1.2", highPrice |-> "2600", lowPrice |-> "2400",
       volume |-> "15000"],
      [price |-> "2500.333", priceChangePercent |-> "-1.2", highPrice |-> "2600",
       lowPrice |-> "2400"] }

Reply(net, err, status, json, body) ==
    [net |-> net, err |-> err, status |-> status, json |-> json, body |-> body]

Responses ==
    { Reply(FALSE, "Connection refused", 0, FALSE, [k \in {} |-> ""]) }
    \cup { Reply(TRUE, "", st, FALSE, [k \in {} |-> ""]) : st \in {200, 404, 500} }
    \cup { Reply(TRUE, "", 400, TRUE, GoodBody) }
    \cup { Reply(TRUE, "", 200, TRUE, b) : b \in Bodies }

Symbols == {"BTCUSDT", "ETHUSDT", "dogeusdt", "XYZ"}

Vocabulary ==
    {"btcusdt", "EthUsdt", "SOLUSDT,", "eth", "market", "Details", "price",
     "metadata", "of\tdogeusdt  "}

RECURSIVE Phrases(_)
Phrases(n) ==
    IF n = 0 THEN {}
    ELSE Vocabulary \cup Phrases(n - 1)
         \cup { p \o " " \o w : p \in Phrases(n - 1), w \in Vocabulary }

Texts == Phrases(MaxWords)

\* the dicts get_crypto_market_data returns
Snapshots == { get_crypto_market_data(s, r).value : s \in Symbols, r \in Responses }

-----------------------------------------------------------------------------
(* Inputs of a chat session *)

Prompts ==
    {"ETHUSDT price?", "EthUsdt market data", "tell me market details",
     "metadata for eth and SOLUSDT,", "show Details dogeusdt\tbtcusdt"}

\* upstream replies to the snapshot fetch of a turn
SessionResponses ==
    { Reply(FALSE, "Connection refused", 0, FALSE, [k \in {} |-> ""]),
      Reply(TRUE, "", 500, FALSE, [k \in {} |-> ""]),
      Reply(TRUE, "", 200, FALSE, [k \in {} |-> ""]),
      Reply(TRUE, "", 200, TRUE, GoodBody),
      Reply(TRUE, "", 200, TRUE, EthBody),
      Reply(TRUE, "", 200, TRUE, [price |-> "43250.5"]),
      Reply(TRUE, "", 200, TRUE, [GoodBody EXCEPT !.highPrice = ""]) }

\* what Runner.run does with a prompt: a final output, or an exception
AgentRuns ==
    { Return("BTC is trading near $43,250.50 right now."),
      Return("I can help with cryptocurrency prices."),
      Raise("Connection error.") }

\* what setting up the event loop can raise before the agent is run
LoopErrors == {"Too many open files"}

NoReply == Reply(FALSE, "", 0, FALSE, [k \in {} |-> ""])

In(fn, text, sym, resp, data) ==
    [fn |-> fn, text |-> text, symbol |-> sym, resp |-> resp, data |-> data]

NoInput == In("none", "", "", NoReply, <<>>)

NoOutput == [fn |-> "none", result |-> Return("")]

NoRun == [kind |-> "none", value |-> ""]

-----------------------------------------------------------------------------
(* The functions of a turn tabulated over the inputs of a session, so that *)
(* a step of a turn looks its result up.                                   *)

\* line 163 for each prompt
TriggerOf == [p \in Prompts |-> TriggerGate(p)]

\* lines 165-169 for each prompt
SymbolOf == [p \in Prompts |-> ExtractSymbol(p)]

\* line 170 for each extracted symbol and upstream reply
SnapshotOf ==
    [s \in {SymbolOf[p] : p \in Prompts}, r \in SessionResponses |->
        get_crypto_market_data(s, r).value]

\* line 172 for each snapshot of a session
ReportOf ==
    [d \in {SnapshotOf[s, r] : s \in {SymbolOf[p] : p \in Prompts},
                                r \in SessionResponses} |->
        format_market_data(d)]

-----------------------------------------------------------------------------
(* get_agent_response: run is what Runner.run did *)

\* mutant: the exception text returned without the marker
get_agent_response_unmarked(run) ==
    IF run.kind = "raise" THEN Return(run.value) ELSE run

get_agent_response(run) ==
    IF run.kind = "raise" THEN Return(WarningMark \o " Error: " \o run.value) ELSE run

-----------------------------------------------------------------------------
(* The chat session: one script run of main() per page run or submitted    *)
(* prompt.                                                                 *)

UserMsg(text) == [role |-> "user", content |-> text]

AssistantMsg(text) == [role |-> "assistant", content |-> text]

\* mutant: the transcript is created on every script run
InitSessionAlways ==
    /\ session' = session \cup {"agent", "messages"}
    /\ messages' = <<Welcome>>

\* lines 130-138: create the agent and the transcript once per session
InitSession ==
    /\ session' = session \cup {"agent", "messages"}
    /\ messages' = IF "messages" \in session THEN messages ELSE <<Welcome>>

FreshLocals ==
    /\ response' = ""
    /\ symbol' = ""
    /\ market_data' = <<>>
    /\ agentInput' = ""
    /\ agentRun' = NoRun
    /\ agentAnswer' = ""
    /\ delegations' = 0
    /\ toolFetches' = 0
    /\ directFetches' = 0
    /\ pipeline' = "none"

\* a script run with no chat input: the page is loaded or rerun
PageRun ==
    /\ pc = "idle"
    /\ InitSession
    /\ prompt' = ""
    /\ FreshLocals
    /\ UNCHANGED <<pc, turns, input, output>>

\* a script run with chat input p, up to the append of the user message
Submit(p) ==
    /\ pc = "idle"
    /\ "messages" \in session
    /\ turns < MaxTurns
    /\ session' = session \cup {"agent", "messages"}
    /\ messages' = Append(messages, UserMsg(p))
    /\ prompt' = p
    /\ FreshLocals
    /\ pc' = "agent"
    /\ UNCHANGED <<turns, input, output>>

\* lines 156-160: the delegation ran; the agent made tools snapshot fetches
AgentCall(run, tools) ==
    LET r == get_agent_response(run)
    IN  /\ pc = "agent"
        /\ agentInput' = prompt
        /\ agentRun' = run
        /\ response' = IF r.kind = "raise" THEN WarningMark \o " Error: " \o r.value
                       ELSE r.value
        /\ agentAnswer' = response'
        /\ delegations' = delegations + 1
        /\ toolFetches' = toolFetches + tools
        /\ pc' = IF r.kind = "raise" THEN "append" ELSE "gate"
        /\ UNCHANGED <<session, messages, prompt, symbol, market_data,
                       directFetches, pipeline, turns, input, output>>

\* lines 156-160 raise outside get_agent_response (the event loop cannot be
\* set up): the delegation step of the turn has failed, lines 176-177
AgentLoopFail(err) ==
    /\ pc = "agent"
    /\ agentInput' = prompt
    /\ agentRun' = Raise(err)
    /\ response' = WarningMark \o " Error: " \o err
    /\ agentAnswer' = response'
    /\ delegations' = delegations + 1
    /\ pc' = "append"
    /\ UNCHANGED <<session, messages, prompt, symbol, market_data, toolFetches,
                   directFetches, pipeline, turns, input, output>>

\* mutant: the override block entered without the keyword test
GateUnconditional ==
    /\ pc = "gate"
    /\ symbol' = SymbolOf[prompt]
    /\ pc' = "fetch"
    /\ UNCHANGED <<session, messages, prompt, response, market_data, agentInput,
                   agentRun, agentAnswer, delegations, toolFetches, directFetches,
                   pipeline, turns, input, output>>

\* lines 163-169
Gate ==
    /\ pc = "gate"
    /\ IF TriggerOf[prompt]
       THEN symbol' = SymbolOf[prompt] /\ pc' = "fetch"
       ELSE symbol' = symbol /\ pc' = "append"
    /\ UNCHANGED <<session, messages, prompt, response, market_data, agentInput,
                   agentRun, agentAnswer,
                   delegations, toolFetches, directFetches, pipeline, turns,
                   input, output>>

\* mutant: the report added to the agent's answer
OverrideAppended(answer, data) ==
    IF "error" \notin DOMAIN data
    THEN answer \o "\n\n" \o format_market_data(data)
    ELSE answer

\* mutant: the error test of line 171 left out
OverrideUnchecked(answer, data) == format_market_data(data)

\* lines 171-172
Override(answer, data) ==
    IF "error" \notin DOMAIN data THEN ReportOf[data] ELSE answer

\* mutant: a failed snapshot fetch is tried again
FetchDirectRetry(resp) ==
    /\ pc = "fetch"
    /\ market_data' = SnapshotOf[symbol, resp]
    /\ directFetches' = directFetches + 1
    /\ response' = Override(response, market_data')
    /\ pipeline' = IF "error" \in DOMAIN market_data' THEN "error" ELSE "ok"
    /\ pc' = IF "error" \in DOMAIN market_data' /\ directFetches = 0
             THEN "fetch" ELSE "append"
    /\ UNCHANGED <<session, messages, prompt, symbol, agentInput, agentRun,
                   agentAnswer, delegations, toolFetches, turns, input, output>>

\* lines 170-172: the call reaches get_crypto_market_data
FetchDirect(resp) ==
    /\ pc = "fetch"
    /\ market_data' = SnapshotOf[symbol, resp]
    /\ directFetches' = directFetches + 1
    /\ response' = Override(response, market_data')
    /\ pipeline' = IF "error" \in DOMAIN market_data' THEN "error" ELSE "ok"
    /\ pc' = "append"
    /\ UNCHANGED <<session, messages, prompt, symbol, agentInput, agentRun,
                   agentAnswer, delegations,
                   toolFetches, turns, input, output>>

\* lines 170, 173-174: calling the function_tool-decorated attribute raises
FetchRaises ==
    /\ pc = "fetch"
    /\ pipeline' = "raised"
    /\ pc' = "append"
    /\ UNCHANGED <<session, messages, prompt, response, symbol, market_data,
                   agentInput, agentRun, agentAnswer, delegations, toolFetches, directFetches, turns,
                   input, output>>

\* lines 179-182
AppendResponse ==
    /\ pc = "append"
    /\ messages' = Append(messages, AssistantMsg(response))
    /\ turns' = turns + 1
    /\ pc' = "idle"
    /\ UNCHANGED <<session, prompt, response, symbol, market_data, agentInput,
                   agentRun, agentAnswer,
                   delegations, toolFetches, directFetches, pipeline, input, output>>

\* the session before the first script run
Session0 ==
    /\ session = {}
    /\ messages = <<>>
    /\ pc = "idle"
    /\ prompt = ""
    /\ response = ""
    /\ symbol = ""
    /\ market_data = <<>>
    /\ agentInput = ""
    /\ agentRun = NoRun
    /\ agentAnswer = ""
    /\ delegations = 0
    /\ toolFetches = 0
    /\ directFetches = 0
    /\ pipeline = "none"
    /\ turns = 0

Init == Session0 /\ input = NoInput /\ output = NoOutput

Next ==
    \/ PageRun
    \/ \E p \in Prompts : Submit(p)
    \/ \E run \in AgentRuns, tools \in 0..MaxToolCalls : AgentCall(run, tools)
    \/ \E err \in LoopErrors : AgentLoopFail(err)
    \/ Gate
    \/ \E resp \in SessionResponses : FetchDirect(resp)
    \/ FetchRaises
    \/ AppendResponse

Spec == Init /\ [][Next]_vars

\* a started script run is executed to its end
TurnStep ==
    \/ \E run \in AgentRuns, tools \in 0..MaxToolCalls : AgentCall(run, tools)
    \/ \E err \in LoopErrors : AgentLoopFail(err)
    \/ Gate
    \/ \E resp \in SessionResponses : FetchDirect(resp)
    \/ FetchRaises
    \/ AppendResponse

FairSpec == Spec /\ WF_vars(TurnStep)

-----------------------------------------------------------------------------
(* The function suite: each function applied once to an input drawn from   *)
(* its input set.                                                          *)

FnInputs ==
    { In("extractSymbol", t, "", NoReply, <<>>) : t \in Texts }
    \cup { In("get_crypto_price", "", s, r, <<>>) : s \in Symbols, r \in Responses }
    \cup { In("get_crypto_market_data", "", s, r, <<>>) : s \in Symbols, r \in Responses }
    \cup { In("format_market_data", "", "", NoReply, d) : d \in Snapshots }

InitFn == Session0 /\ input \in FnInputs /\ output = NoOutput

Applied(fn, result) ==
    /\ input.fn = fn
    /\ output.fn = "none"
    /\ output' = [fn |-> fn, result |-> result]
    /\ UNCHANGED <<session, messages, pc, prompt, response, symbol, market_data,
                   agentInput, agentRun, agentAnswer, delegations, toolFetches, directFetches, pipeline,
                   turns, input>>

ApplyExtractSymbol == Applied("extractSymbol", Return(ExtractSymbol(input.text)))

ApplyGetCryptoPrice ==
    Applied("get_crypto_price", get_crypto_price(input.symbol, input.resp))

ApplyGetCryptoMarketData ==
    Applied("get_crypto_market_data", get_crypto_market_data(input.symbol, input.resp))

ApplyFormatMarketData ==
    Applied("format_market_data", Return(format_market_data(input.data)))

NextFn ==
    \/ ApplyExtractSymbol
    \/ ApplyGetCryptoPrice
    \/ ApplyGetCryptoMarketData
    \/ ApplyFormatMarketData

SpecFn == InitFn /\ [][NextFn]_vars

-----------------------------------------------------------------------------
(* Properties of a chat turn *)

\* the script run of a turn has ended
Rendered == pc = "idle" /\ prompt # ""

\* the text of the current script run holds a trigger word
Triggered == prompt # "" /\ TriggerOf[prompt]

InTurn == pc \in {"agent", "gate", "fetch", "append"}

LastMsg == messages[Len(messages)]

ErrorPrefix == WarningMark \o " Error: "

IsPrefix(a, b) == Len(a) <= Len(b) /\ SubSeq(b, 1, Len(a)) = a

\* C1: in a turn whose text holds a trigger word and whose override block
\* succeeded, the assistant message of the turn is the formatted report of the
\* snapshot fetched for the extracted symbol, and the agent's answer (an
\* answer or an error text) is no part of it.
C1_OverrideOnSuccess ==
    (Rendered /\ Triggered /\ pipeline = "ok") =>
        /\ "error" \notin DOMAIN market_data
        /\ market_data["symbol"] = symbol
        /\ LastMsg = AssistantMsg(format_market_data(market_data))
        /\ messages[Len(messages) - 1] = UserMsg(prompt)
        /\ ~Contains(LastMsg.content, agentAnswer)
        /\ LastMsg.content # agentAnswer

C1_Witness ==
    /\ Rendered
    /\ Triggered
    /\ pipeline = "ok"
    /\ agentRun.kind = "raise"
    /\ StartsWith(agentAnswer, ErrorPrefix)
    /\ StartsWith(LastMsg.content, ChartMark \o " ETHUSDT Market Data:")

\* C2 as stated: in a turn whose text holds no trigger word the assistant
\* message is the agent's answer and no snapshot fetch at all is issued in
\* the turn.
C2_NoFetchAtAll ==
    (prompt # "" /\ ~Triggered) =>
        /\ toolFetches + directFetches = 0
        /\ Rendered => LastMsg = AssistantMsg(agentAnswer)

\* C2 amended: in a turn whose text holds no trigger word the assistant
\* message is the agent's answer unmodified and main() issues no snapshot
\* fetch of its own (the agent may still fetch through its tool).
C2_NoOverrideWithoutTrigger ==
    (prompt # "" /\ ~Triggered) =>
        /\ directFetches = 0
        /\ pipeline = "none"
        /\ market_data = <<>>
        /\ pc # "fetch"
        /\ Rendered => LastMsg = AssistantMsg(agentAnswer)

C2_Witness ==
    /\ Rendered
    /\ ~Triggered
    /\ Contains(Upper(prompt), "ETHUSDT")
    /\ agentRun.kind = "return"
    /\ toolFetches > 0
    /\ LastMsg = AssistantMsg(agentRun.value)

\* C3: in a turn whose text holds a trigger word and whose override block
\* failed (an error-shaped snapshot, or an exception), the assistant message
\* is the agent's answer, and the failure text is no part of it.
C3_KeepAnswerOnFailure ==
    (Rendered /\ Triggered /\ pipeline \in {"error", "raised"}) =>
        /\ LastMsg = AssistantMsg(agentAnswer)
        /\ pipeline = "error" =>
              /\ "error" \in DOMAIN market_data
              /\ ~Contains(LastMsg.content, market_data["error"])

C3_Witness ==
    /\ Rendered
    /\ Triggered
    /\ pipeline = "error"
    /\ market_data = [error |-> "Connection refused"]
    /\ agentRun.kind = "return"
    /\ LastMsg = AssistantMsg(agentRun.value)

\* what every state of a turn shows of its messages and of a failed delegation
TurnOutcome ==
    /\ InTurn => LastMsg = UserMsg(prompt)
    /\ Rendered =>
          /\ LastMsg.role = "assistant"
          /\ messages[Len(messages) - 1] = UserMsg(prompt)
          /\ Len(messages) = 1 + 2 * turns
          /\ LastMsg.content = agentAnswer \/ pipeline = "ok"
    /\ (agentRun.kind = "raise") =>
          /\ agentAnswer = ErrorPrefix \o agentRun.value
          /\ pc = "append" => (response = agentAnswer \/ pipeline = "ok")

\* C4: every started turn reaches the rendered state, with one assistant
\* message appended after the user's message, whatever failed; a failed
\* delegation is the text of its error behind the marker prefix.
C4_TurnCompletes == (InTurn ~> Rendered) /\ []TurnOutcome

C4_Witness ==
    /\ Rendered
    /\ agentRun = Raise("Connection error.")
    /\ pipeline = "error"
    /\ LastMsg = AssistantMsg(ErrorPrefix \o "Connection error.")

TranscriptShape ==
    /\ "messages" \notin session => messages = <<>>
    /\ "messages" \in session =>
          /\ messages[1] = Welcome
          /\ Len(messages) = 1 + 2 * turns + (IF InTurn THEN 1 ELSE 0)
          /\ \A i \in 2..Len(messages) :
                messages[i].role = IF i % 2 = 0 THEN "user" ELSE "assistant"

\* C9: over turns and page runs the transcript only grows at its end; it
\* starts with the welcome message; after n completed turns it holds 1 + 2n
\* messages, user and assistant alternating after the welcome.
C9_Transcript == []TranscriptShape /\ [][IsPrefix(messages, messages')]_vars

C9_Witness ==
    /\ pc = "idle"
    /\ prompt = ""
    /\ turns = MaxTurns
    /\ Len(messages) = 1 + 2 * MaxTurns
    /\ messages[1] = Welcome

-----------------------------------------------------------------------------
(* Properties of the functions *)

ResultOf(fn) == output.fn = fn

\* the upstream reply is a 2xx JSON object
ReplyOk(resp) == resp.net /\ ~(resp.status >= 400 /\ resp.status < 600) /\ resp.json

Numeric(body, key) == key \in DOMAIN body /\ ParseFloat(body[key]).ok

SnapshotKeys == {"symbol", "price", "change", "high", "low", "volume"}

\* C5: get_crypto_market_data returns a dict that either holds exactly
\* symbol, price, change, high, low and volume (when the reply is a 2xx JSON
\* object with the five numeric fields) or holds exactly error.
C5_TaggedSnapshot ==
    ResultOf("get_crypto_market_data") =>
        LET d == output.result.value
            good == /\ ReplyOk(input.resp)
                    /\ \A i \in 1..Len(MarketFields) :
                          Numeric(input.resp.body, MarketFields[i])
        IN  /\ output.result.kind = "return"
            /\ DOMAIN d = SnapshotKeys \/ DOMAIN d = {"error"}
            /\ good <=> DOMAIN d = SnapshotKeys
            /\ good => d["symbol"] = input.symbol

C5_Witness ==
    /\ ResultOf("get_crypto_market_data")
    /\ ReplyOk(input.resp)
    /\ Numeric(input.resp.body, "price")
    /\ ~Numeric(input.resp.body, "highPrice")
    /\ DOMAIN output.result.value = {"error"}

\* C6: get_crypto_price always returns a string; on a failed reply (no
\* connection, a 4xx or 5xx status, a body that is not JSON, no price or a
\* price that is no number) the string is the error marker, the symbol and
\* the error text; it is the "Current ... price" string exactly when the
\* reply is a 2xx JSON object with a numeric price.
C6_PriceNeverRaises ==
    ResultOf("get_crypto_price") =>
        LET out == output.result.value
            good == ReplyOk(input.resp) /\ Numeric(input.resp.body, "price")
            marker == CrossMark \o " Error fetching " \o input.symbol \o " price: "
        IN  /\ output.result.kind = "return"
            /\ ~good => StartsWith(out, marker) /\ Len(out) > Len(marker)
            /\ ~input.resp.net => out = marker \o input.resp.err
            /\ good <=> StartsWith(out, "Current " \o input.symbol \o " price: $")
            /\ (good /\ input.symbol = "BTCUSDT" /\ input.resp.body["price"] = "43250.5")
                  => out = "Current BTCUSDT price: $43,250.50"

C6_Witness ==
    /\ ResultOf("get_crypto_price")
    /\ ReplyOk(input.resp)
    /\ "price" \in DOMAIN input.resp.body
    /\ ~Numeric(input.resp.body, "price")
    /\ StartsWith(output.result.value, CrossMark \o " Error fetching ")

AllowSet ==
    {"BTCUSDT", "ETHUSDT", "BNBUSDT", "XRPUSDT", "ADAUSDT", "SOLUSDT", "DOGEUSDT"}

\* C7: the extracted symbol is the first whitespace-delimited word of the
\* uppercased text that is a member of the allow-list, and BTCUSDT when no
\* word is; it is always a member of the allow-list.
C7_FirstAllowedWord ==
    ResultOf("extractSymbol") =>
        LET words == Split(Upper(input.text))
            hits == {i \in 1..Len(words) : words[i] \in AllowSet}
            out == output.result.value
        IN  /\ out \in AllowSet
            /\ hits = {} => out = "BTCUSDT"
            /\ \A i \in hits : (\A j \in hits : i <= j) => out = words[i]

C7_Witness ==
    /\ ResultOf("extractSymbol")
    /\ input.text = "SOLUSDT, of\tdogeusdt  "
    /\ output.result.value = "DOGEUSDT"

\* the lines of s: the text between its newline characters
Lines(s) ==
    LET nl == {i \in 1..Len(s) : Char(s, i) = "\n"}
        n == Cardinality(nl)
        pos(k) == CHOOSE i \in nl : Cardinality({j \in nl : j < i}) = k - 1
        first(k) == IF k = 1 THEN 1 ELSE pos(k - 1) + 1
        last(k) == IF k = n + 1 THEN Len(s) ELSE pos(k) - 1
    IN  [k \in 1..(n + 1) |-> SubSeq(s, first(k), last(k))]

\* the report has n lines: the header, then price, change, high, low, volume
ReportLayout(d, out, n) ==
    LET L == Lines(out)
    IN  /\ Len(L) = n
        /\ L[1] = ChartMark \o " " \o d["symbol"] \o " Market Data:"
        /\ StartsWith(L[2], Bullet \o " Price: $")
        /\ StartsWith(L[3], Bullet \o " 24h Change: ") /\ EndsWith(L[3], "%")
        /\ StartsWith(L[4], Bullet \o " 24h High: $")
        /\ StartsWith(L[5], Bullet \o " 24h Low: $")
        /\ StartsWith(L[Len(L)], Bullet \o " 24h Volume: ")

EthSnapshot ==
    [symbol |-> "ETHUSDT", price |-> Num(FALSE, 2500333), change |-> Num(TRUE, 1200),
     high |-> Num(FALSE, 2600000), low |-> Num(FALSE, 2400000),
     volume |-> Num(FALSE, 15000000)]

\* C8 as stated: the report of a snapshot without error has five lines.
C8_FiveLines ==
    ResultOf("format_market_data") =>
        IF "error" \in DOMAIN input.data
        THEN output.result.value = input.data["error"]
        ELSE ReportLayout(input.data, output.result.value, 5)

\* C8 amended: the report of a snapshot without error has six lines, the
\* header with the symbol and then price, 24h change, 24h high, 24h low and
\* 24h volume, in this order for every snapshot; a snapshot with an error
\* is formatted as that error, verbatim.
C8_SixLines ==
    ResultOf("format_market_data") =>
        IF "error" \in DOMAIN input.data
        THEN output.result.value = input.data["error"]
        ELSE /\ ReportLayout(input.data, output.result.value, 6)
             /\ input.data = EthSnapshot =>
                   Lines(output.result.value) =
                       << ChartMark \o " ETHUSDT Market Data:",
                          Bullet \o " Price: $2,500.33",
                          Bullet \o " 24h Change: -1.20%",
                          Bullet \o " 24h High: $2,600.00",
                          Bullet \o " 24h Low: $2,400.00",
                          Bullet \o " 24h Volume: 15,000.00" >>

C8_Witness ==
    /\ ResultOf("format_market_data")
    /\ input.data = EthSnapshot
    /\ Len(Lines(output.result.value)) = 6

====
